---- MODULE Spec2Model ----
(***************************************************************************)
(* A model of the Bases Gantt view: the date utilities, the record-to-task *)
(* mapper with its dependency sorter and group headers, and the view's     *)
(* edit-back path (date and progress callbacks written to frontmatter).    *)
(*                                                                         *)
(* Strings are sequences of one-character strings, so that trimming,       *)
(* pattern tests, padding, replacing and splitting are computed as the     *)
(* code computes them. A JavaScript Date is the number of minutes since    *)
(* the epoch in UTC; the viewer's time zone is a fixed offset in minutes   *)
(* (daylight-saving transitions and seconds are outside the model).        *)
(***************************************************************************)
EXTENDS Integers, Sequences, FiniteSets, TLC

VARIABLES
    tz,        \* the viewer's time zone: local time minus UTC, in minutes
    dIn,       \* date utilities: the string handed to parseObsidianDate
    dOut,      \* date utilities: the formatted result
    dPhase,    \* date utilities: "in" before the call, "out" after
    mEntries,  \* mapper: the entries handed to mapEntriesToTasks
    mConfig,   \* mapper: the TaskMapperConfig
    mTasks,    \* mapper: the tasks returned
    mPhase,    \* mapper: "in" before the call, "out" after
    vault,     \* view: the frontmatter of each file of the vault
    groups,    \* view: this.data.groupedData, each group with its files
    viewConfig,     \* view: this.config, the view options
    currentTasks,   \* view: this.currentTasks, the tasks handed to the chart
    taskMap,        \* view: this.taskMap
    gantt,          \* view: this.gantt with the options captured by initGantt
    configSnapshot, \* view: this.configSnapshot
    justDragged,    \* view: this.justDragged
    opened,         \* workspace: the notes handed to openLinkText, in order
    timers,         \* view: the reset timers of on_date_change still pending
    pending         \* view: the processFrontMatter calls not yet completed

dateVars == <<dIn, dOut, dPhase>>
mapVars == <<mEntries, mConfig, mTasks, mPhase>>
viewVars == <<vault, groups, viewConfig, currentTasks, taskMap, gantt,
              configSnapshot, justDragged, opened, timers, pending>>
vars == <<tz, dIn, dOut, dPhase, mEntries, mConfig, mTasks, mPhase,
          vault, groups, viewConfig, currentTasks, taskMap, gantt,
          configSnapshot, justDragged, opened, timers, pending>>

(***************************************************************************)
(* Strings                                                                 *)
(***************************************************************************)
DigitChars == <<"0", "1", "2", "3", "4", "5", "6", "7", "8", "9">>

IsDigit(c) == \E i \in 1..10 : DigitChars[i] = c

DigitVal(c) == (CHOOSE i \in 1..10 : DigitChars[i] = c) - 1

\* The decimal digits of n >= 0, as String(n) writes them (no padding).
RECURSIVE NumToStr(_)
NumToStr(n) ==
    IF n < 10 THEN <<DigitChars[n + 1]>>
    ELSE NumToStr(n \div 10) \o <<DigitChars[(n % 10) + 1]>>

\* The value of a sequence of digits.
RECURSIVE StrToNum(_)
StrToNum(s) ==
    IF s = <<>> THEN 0
    ELSE StrToNum(SubSeq(s, 1, Len(s) - 1)) * 10 + DigitVal(s[Len(s)])

\* String.prototype.padStart(w, '0')
RECURSIVE padStart(_, _)
padStart(s, w) == IF Len(s) >= w THEN s ELSE padStart(<<"0">> \o s, w)

\* String.prototype.trim(): whitespace removed at both ends.
RECURSIVE trim(_)
trim(s) ==
    IF s = <<>> THEN s
    ELSE IF s[1] = " " THEN trim(Tail(s))
    ELSE IF s[Len(s)] = " " THEN trim(SubSeq(s, 1, Len(s) - 1))
    ELSE s

AllDigits(s, from, to) == \A i \in from..to : IsDigit(s[i])

\* Code-unit order of the characters that occur in date strings.
CharRank(c) ==
    IF c = " " THEN 0
    ELSE IF c = "-" THEN 1
    ELSE IF IsDigit(c) THEN 2 + DigitVal(c)
    ELSE IF c = ":" THEN 12
    ELSE 13

\* a < b for strings: lexicographic, a proper prefix first.
RECURSIVE StrLess(_, _)
StrLess(a, b) ==
    IF b = <<>> THEN FALSE
    ELSE IF a = <<>> THEN TRUE
    ELSE IF a[1] = b[1] THEN StrLess(Tail(a), Tail(b))
    ELSE CharRank(a[1]) < CharRank(b[1])

(***************************************************************************)
(* The JavaScript Date object                                              *)
(***************************************************************************)
MinPerDay == 24 * 60

InvalidDate == [ok |-> FALSE, t |-> 0]
MkDate(t) == [ok |-> TRUE, t |-> t]

\* Days from 1970-01-01 to the civil date y-m-d (d may overflow the month,
\* as in MakeDay).
DaysFromCivil(y, m, d) ==
    LET yy  == IF m <= 2 THEN y - 1 ELSE y
        era == yy \div 400
        yoe == yy - era * 400
        mp  == (m + 9) % 12
        doy == (153 * mp + 2) \div 5 + d - 1
        doe == yoe * 365 + yoe \div 4 - yoe \div 100 + doy
    IN  era * 146097 + doe - 719468

\* The civil date [y, m, d] of a day number.
CivilFromDays(z) ==
    LET z1  == z + 719468
        era == z1 \div 146097
        doe == z1 - era * 146097
        yoe == (doe - doe \div 1460 + doe \div 36524 - doe \div 146096) \div 365
        doy == doe - (365 * yoe + yoe \div 4 - yoe \div 100)
        mp  == (5 * doy + 2) \div 153
        d   == doy - (153 * mp + 2) \div 5 + 1
        m   == IF mp < 10 THEN mp + 3 ELSE mp - 9
    IN  [y |-> yoe + era * 400 + (IF m <= 2 THEN 1 ELSE 0), m |-> m, d |-> d]

\* Local time fields of a Date in time zone z: getFullYear(), getMonth() + 1,
\* getDate(), and the minute of the day.
LocalFields(date, z) ==
    LET lt  == date.t + z
        day == lt \div MinPerDay
        c   == CivilFromDays(day)
    IN  [y |-> c.y, m |-> c.m, d |-> c.d, min |-> lt - day * MinPerDay]

\* new Date(y, m, d, h, mi) in local time of zone z.
FromLocal(y, m, d, min, z) == MkDate(DaysFromCivil(y, m, d) * MinPerDay + min - z)

\* The slip date.setDate(date.getDay() + n): the day of the week (0 is
\* Sunday) in place of the day of the month.
AddDays_GetDay(date, n, z) ==
    LET f   == LocalFields(date, z)
        day == (date.t + z) \div MinPerDay
    IN  FromLocal(f.y, f.m, ((day + 4) % 7) + n, f.min, z)

\* date.setDate(date.getDate() + n): the local day moves, the local time of
\* day stays.
AddDays(date, n, z) ==
    LET f == LocalFields(date, z)
    IN  FromLocal(f.y, f.m, f.d + n, f.min, z)

\* The engine's check of the fields of an ISO string (V8: month 1..12,
\* day 1..31, hour 0..24, minute 0..59).
IsoFieldsOk(m, d, h, mi) ==
    m \in 1..12 /\ d \in 1..31 /\ h \in 0..23 /\ mi \in 0..59

\* /^\d{4}-\d{2}-\d{2}$/
IsDateOnly(s) ==
    /\ Len(s) = 10
    /\ AllDigits(s, 1, 4) /\ s[5] = "-" /\ AllDigits(s, 6, 7)
    /\ s[8] = "-" /\ AllDigits(s, 9, 10)

\* /^\d{4}-\d{2}-\d{2} \d{2}:\d{2}$/ with the separator sep
IsDateTime(s, sep) ==
    /\ Len(s) = 16
    /\ IsDateOnly(SubSeq(s, 1, 10))
    /\ s[11] = sep
    /\ AllDigits(s, 12, 13) /\ s[14] = ":" /\ AllDigits(s, 15, 16)

\* new Date(s) for an ISO date-time string without offset: local time.
NewDateLocal(s, h, mi, z) ==
    LET y == StrToNum(SubSeq(s, 1, 4))
        m == StrToNum(SubSeq(s, 6, 7))
        d == StrToNum(SubSeq(s, 9, 10))
    IN  IF IsoFieldsOk(m, d, h, mi) THEN FromLocal(y, m, d, h * 60 + mi, z)
        ELSE InvalidDate

\* new Date(s) for any other string: an ISO date-time with T is local time,
\* with a trailing Z it is UTC; every other text of the model is not a date.
NewDateGeneric(s, z) ==
    IF IsDateTime(s, "T")
    THEN NewDateLocal(s, StrToNum(SubSeq(s, 12, 13)), StrToNum(SubSeq(s, 15, 16)), z)
    ELSE IF Len(s) = 17 /\ s[17] = "Z" /\ IsDateTime(SubSeq(s, 1, 16), "T")
    THEN NewDateLocal(s, StrToNum(SubSeq(s, 12, 13)), StrToNum(SubSeq(s, 15, 16)), 0)
    ELSE InvalidDate

(***************************************************************************)
(* date-utils                                                              *)
(***************************************************************************)
NullStr == [isNull |-> TRUE, s |-> <<>>]
Str(s) == [isNull |-> FALSE, s |-> s]

\* parseObsidianDate(value) for a string or null, in time zone z.
parseObsidianDate(value, z) ==
    IF value.isNull THEN InvalidDate
    ELSE LET trimmed == trim(value.s)
         IN  IF trimmed = <<>> THEN InvalidDate
             ELSE IF IsDateOnly(trimmed) THEN NewDateLocal(trimmed, 0, 0, z)
             ELSE IF IsDateTime(trimmed, " ")
             THEN NewDateLocal(trimmed, StrToNum(SubSeq(trimmed, 12, 13)),
                               StrToNum(SubSeq(trimmed, 15, 16)), z)
             ELSE NewDateGeneric(trimmed, z)

\* formatDateForGantt(date): `${y}-${m}-${d}` from the local fields.
formatDateForGantt(date, z) ==
    LET f == LocalFields(date, z)
    IN  NumToStr(f.y) \o <<"-">> \o padStart(NumToStr(f.m), 2)
          \o <<"-">> \o padStart(NumToStr(f.d), 2)

\* formatDateForFrontmatter(date, includeTime = false)
formatDateForFrontmatter(date, z) == formatDateForGantt(date, z)

(***************************************************************************)
(* Obsidian values, property ids and entries                               *)
(***************************************************************************)
JsNull == [kind |-> "jsnull", s |-> <<>>]
NullValue == [kind |-> "null", s |-> <<>>]
DateValue(s) == [kind |-> "date", s |-> s]
TextValue(s) == [kind |-> "text", s |-> s]
NumberValue(s) == [kind |-> "number", s |-> s]

\* A property id is "note.<name>"; null is the empty id.
NoProp == <<>>
NoteProp(name) == <<"note", ".">> \o name

\* s.indexOf(c): the first position of c, 0 when there is none.
IndexOf(s, c) ==
    IF \E i \in 1..Len(s) : s[i] = c
    THEN CHOOSE i \in 1..Len(s) : s[i] = c /\ \A j \in 1..(i - 1) : s[j] # c
    ELSE 0

\* The last position of c in s, 0 when there is none.
LastIndexOf(s, c) ==
    IF \E i \in 1..Len(s) : s[i] = c
    THEN CHOOSE i \in 1..Len(s) : s[i] = c /\ \A j \in (i + 1)..Len(s) : s[j] # c
    ELSE 0

\* extractPropertyName(propertyId): the text after the first dot.
extractPropertyName(propertyId) ==
    LET dotIndex == IndexOf(propertyId, ".")
    IN  IF dotIndex > 0 THEN SubSeq(propertyId, dotIndex + 1, Len(propertyId))
        ELSE propertyId

\* entry.getValue(propertyId): the frontmatter value of a note property,
\* null when the note does not have the property.
getValue(entry, propertyId) ==
    LET name == extractPropertyName(propertyId)
    IN  IF name \in DOMAIN entry.fm THEN entry.fm[name] ELSE JsNull

\* entry.file.basename: the file name without folder and extension.
Basename(path) ==
    LET slash == LastIndexOf(path, "/")
        file  == SubSeq(path, slash + 1, Len(path))
        dot   == LastIndexOf(file, ".")
    IN  IF dot > 1 THEN SubSeq(file, 1, dot - 1) ELSE file

\* path.replace(/\.[^.]+$/, ''): the path without its extension.
PathNoExt(path) ==
    LET dot == LastIndexOf(path, ".")
    IN  IF dot > 0 /\ dot < Len(path) THEN SubSeq(path, 1, dot - 1) ELSE path

(***************************************************************************)
(* task-mapper                                                             *)
(***************************************************************************)
COLOR_CLASS_COUNT == 8

\* extractRawValue(val)
extractRawValue(val) ==
    IF val.kind = "jsnull" \/ val.kind = "null" THEN NullStr
    ELSE IF val.kind = "date" THEN Str(SubSeq(val.s, 1, 10))
    ELSE Str(val.s)

\* makeTaskId(filePath): every space replaced by an underscore.
makeTaskId(filePath) ==
    [i \in 1..Len(filePath) |-> IF filePath[i] = " " THEN "_" ELSE filePath[i]]

GROUP_HEADER_PREFIX == <<"_", "_", "group", "_", "_">>

\* s.startsWith(p)
startsWith(s, p) == Len(s) >= Len(p) /\ SubSeq(s, 1, Len(p)) = p

\* A Map as a function on the set of its keys.
EmptyMap == [k \in {} |-> <<>>]
MapHas(m, k) == k \in DOMAIN m
MapSet(m, k, v) == [x \in DOMAIN m \cup {k} |-> IF x = k THEN v ELSE m[x]]

\* The name index of the first pass: basename and path without extension,
\* each set to the entry's id, a later entry replacing an earlier one.
RECURSIVE BuildNameToId(_, _)
BuildNameToId(entries, m) ==
    IF entries = <<>> THEN m
    ELSE LET path == Head(entries).path
             id   == makeTaskId(path)
         IN  BuildNameToId(Tail(entries),
                 MapSet(MapSet(m, Basename(path), id), PathNoExt(path), id))

\* The color index: each new raw value gets the next index modulo the
\* number of color classes.
RECURSIVE BuildColorValues(_, _, _)
BuildColorValues(entries, colorByProperty, m) ==
    IF entries = <<>> THEN m
    ELSE LET raw == extractRawValue(getValue(Head(entries), colorByProperty))
         IN  BuildColorValues(Tail(entries), colorByProperty,
                 IF ~raw.isNull /\ ~MapHas(m, raw.s)
                 THEN MapSet(m, raw.s, Cardinality(DOMAIN m) % COLOR_CLASS_COUNT)
                 ELSE m)

\* parts.join(sep)
RECURSIVE join(_, _)
join(parts, sep) ==
    IF parts = <<>> THEN <<>>
    ELSE IF Len(parts) = 1 THEN parts[1]
    ELSE parts[1] \o sep \o join(Tail(parts), sep)

\* s.split(c): the pieces of s between the occurrences of c.
RECURSIVE split(_, _)
split(s, c) ==
    LET i == IndexOf(s, c)
    IN  IF i = 0 THEN <<s>>
        ELSE <<SubSeq(s, 1, i - 1)>> \o split(SubSeq(s, i + 1, Len(s)), c)

\* The length of the longest run of lexemes of s from position i on that
\* are not in stop.
RECURSIVE RunLen(_, _, _)
RunLen(s, i, stop) ==
    IF i > Len(s) \/ s[i] \in stop THEN 0 ELSE 1 + RunLen(s, i + 1, stop)

\* The targets matched by /\[\[([^\]|]+)(?:\|[^\]]+)?\]\]/g in depStr from
\* position i on, in order, each trimmed.
RECURSIVE WikiLinkTargets(_, _)
WikiLinkTargets(depStr, i) ==
    IF i > Len(depStr) THEN <<>>
    ELSE IF depStr[i] # "[[" THEN WikiLinkTargets(depStr, i + 1)
    ELSE LET n == RunLen(depStr, i + 1, {"]]", "|"})
             j == i + 1 + n
             a == IF j <= Len(depStr) /\ depStr[j] = "|"
                  THEN RunLen(depStr, j + 1, {"]]"}) ELSE 0
             e == IF j <= Len(depStr) /\ depStr[j] = "|" /\ a > 0
                  THEN j + 1 + a ELSE j
         IN  IF n > 0 /\ e <= Len(depStr) /\ depStr[e] = "]]"
             THEN <<trim(SubSeq(depStr, i + 1, i + n))>>
                    \o WikiLinkTargets(depStr, e + 1)
             ELSE WikiLinkTargets(depStr, i + 1)

\* The ids of the names that the index holds, last name first.
RECURSIVE LookupAll_Reversed(_, _)
LookupAll_Reversed(names, nameToId) ==
    IF names = <<>> THEN <<>>
    ELSE LookupAll_Reversed(Tail(names), nameToId)
           \o (IF MapHas(nameToId, Head(names)) THEN <<nameToId[Head(names)]>> ELSE <<>>)

\* The ids of the names that the index holds, in order.
RECURSIVE LookupAll(_, _)
LookupAll(names, nameToId) ==
    IF names = <<>> THEN <<>>
    ELSE (IF MapHas(nameToId, Head(names)) THEN <<nameToId[Head(names)]>> ELSE <<>>)
           \o LookupAll(Tail(names), nameToId)

\* The non-empty trimmed pieces of a comma-separated text.
RECURSIVE TrimmedPieces(_)
TrimmedPieces(pieces) ==
    IF pieces = <<>> THEN <<>>
    ELSE (IF trim(Head(pieces)) # <<>> THEN <<trim(Head(pieces))>> ELSE <<>>)
           \o TrimmedPieces(Tail(pieces))

\* The dependency ids of an entry, the plain names looked up whenever no
\* wiki-link gave an id.
ResolveDependencies_FallbackOnNoIds(entry, config, nameToId) ==
    IF config.dependenciesProperty = NoProp THEN <<>>
    ELSE LET raw == extractRawValue(getValue(entry, config.dependenciesProperty))
         IN  IF raw.isNull THEN <<>>
             ELSE LET depStr  == raw.s
                      wikiIds == LookupAll(WikiLinkTargets(depStr, 1), nameToId)
                      depIds  ==
                          IF wikiIds = <<>>
                          THEN LookupAll(TrimmedPieces(split(depStr, ",")), nameToId)
                          ELSE wikiIds
                  IN  join(depIds, <<",", " ">>)

\* The dependency ids of an entry, joined with ", ".
ResolveDependencies(entry, config, nameToId) ==
    IF config.dependenciesProperty = NoProp THEN <<>>
    ELSE LET raw == extractRawValue(getValue(entry, config.dependenciesProperty))
         IN  IF raw.isNull THEN <<>>
             ELSE LET depStr  == raw.s
                      wikiIds == LookupAll(WikiLinkTargets(depStr, 1), nameToId)
                      depIds  ==
                          IF wikiIds = <<>> /\ ~(\E i \in 1..Len(depStr) : depStr[i] = "[[")
                          THEN LookupAll(TrimmedPieces(split(depStr, ",")), nameToId)
                          ELSE wikiIds
                  IN  join(depIds, <<",", " ">>)

\* The length of the run of digits of s from position i on.
RECURSIVE DigitRun(_, _)
DigitRun(s, i) ==
    IF i > Len(s) \/ ~IsDigit(s[i]) THEN 0 ELSE 1 + DigitRun(s, i + 1)

\* parseFloat(text): numbers are kept in tenths (40.5 is 405); the text is
\* an optional sign, digits and at most one digit after the point, and
\* whatever follows is ignored.
parseFloat(text) ==
    LET s    == trim(text)
        neg  == s # <<>> /\ s[1] = "-"
        b    == IF neg THEN Tail(s) ELSE s
        n    == DigitRun(b, 1)
        frac == IF n + 2 <= Len(b) /\ b[n + 1] = "." /\ IsDigit(b[n + 2])
                THEN DigitVal(b[n + 2]) ELSE 0
        v    == StrToNum(SubSeq(b, 1, n)) * 10 + frac
    IN  IF n = 0 THEN [nan |-> TRUE, v |-> 0]
        ELSE [nan |-> FALSE, v |-> IF neg THEN 0 - v ELSE v]

Max(a, b) == IF a > b THEN a ELSE b
Min(a, b) == IF a < b THEN a ELSE b

\* The progress of an entry, in tenths.
ResolveProgress(entry, config) ==
    IF config.showProgress /\ config.progressProperty # NoProp
    THEN LET raw == extractRawValue(getValue(entry, config.progressProperty))
         IN  IF raw.isNull THEN 0
             ELSE LET num == parseFloat(raw.s)
                  IN  IF num.nan THEN 0 ELSE Max(0, Min(1000, num.v))
    ELSE 0

\* The label of an entry.
ResolveName(entry, config) ==
    IF config.labelProperty # NoProp
    THEN LET raw == extractRawValue(getValue(entry, config.labelProperty))
         IN  IF ~raw.isNull /\ trim(raw.s) # <<>> THEN raw.s
             ELSE Basename(entry.path)
    ELSE Basename(entry.path)

\* The color class of an entry: gantt-color-<idx>, or empty.
ResolveColorClass(entry, config, colorValues) ==
    IF config.colorByProperty # NoProp
    THEN LET raw == extractRawValue(getValue(entry, config.colorByProperty))
         IN  IF ~raw.isNull /\ MapHas(colorValues, raw.s)
             THEN <<"gantt-color-">> \o NumToStr(colorValues[raw.s])
             ELSE <<>>
    ELSE <<>>

\* ResolveEnd without the step "Ensure end >= start".
ResolveEnd_NoInversionFix(entry, config, startDate, z) ==
    LET parsed == IF config.endProperty # NoProp
                  THEN parseObsidianDate(
                           extractRawValue(getValue(entry, config.endProperty)), z)
                  ELSE InvalidDate
    IN  IF ~parsed.ok THEN AddDays(startDate, 1, z) ELSE parsed

\* The end date of an entry before the milestone widening: the parsed end,
\* or start + 1 day when there is none or it is before the start.
ResolveEnd(entry, config, startDate, z) ==
    LET parsed == IF config.endProperty # NoProp
                  THEN parseObsidianDate(
                           extractRawValue(getValue(entry, config.endProperty)), z)
                  ELSE InvalidDate
        endDate == IF ~parsed.ok THEN AddDays(startDate, 1, z) ELSE parsed
    IN  IF endDate.t < startDate.t THEN AddDays(startDate, 1, z) ELSE endDate

\* The task pushed for an entry with its start date and its end date
\* before the milestone widening.
TaskFrom(entry, config, nameToId, colorValues, startDate, endDate, z) ==
    LET color       == ResolveColorClass(entry, config, colorValues)
        isMilestone == startDate.t = endDate.t
    IN  [ id           |-> makeTaskId(entry.path),
          name         |-> ResolveName(entry, config),
          start        |-> formatDateForGantt(startDate, z),
          end          |-> formatDateForGantt(
                               IF isMilestone THEN AddDays(startDate, 1, z)
                               ELSE endDate, z),
          progress     |-> ResolveProgress(entry, config),
          dependencies |-> ResolveDependencies(entry, config, nameToId),
          custom_class |-> IF isMilestone /\ color = <<>>
                           THEN <<"gantt-milestone">> ELSE color,
          filePath     |-> entry.path,
          isMilestone  |-> isMilestone ]

\* The task of an entry with its start date.
TaskWithStart(entry, config, nameToId, colorValues, startDate, z) ==
    TaskFrom(entry, config, nameToId, colorValues, startDate,
             ResolveEnd(entry, config, startDate, z), z)

\* The body of the loop over the entries: the task of one entry with a
\* start date.
TaskOf(entry, config, nameToId, colorValues, z) ==
    TaskWithStart(entry, config, nameToId, colorValues,
        parseObsidianDate(extractRawValue(getValue(entry, config.startProperty)), z), z)

\* Whether the loop keeps the entry: its start parses to a date.
HasStart(entry, config, z) ==
    parseObsidianDate(extractRawValue(getValue(entry, config.startProperty)), z).ok

\* The loop over the entries: the tasks before sorting.
RECURSIVE BuildTasks(_, _, _, _, _)
BuildTasks(entries, config, nameToId, colorValues, z) ==
    IF entries = <<>> THEN <<>>
    ELSE (IF HasStart(Head(entries), config, z)
          THEN <<TaskOf(Head(entries), config, nameToId, colorValues, z)>>
          ELSE <<>>)
           \o BuildTasks(Tail(entries), config, nameToId, colorValues, z)

(***************************************************************************)
(* sortByDependencies                                                      *)
(***************************************************************************)
\* a.start.localeCompare(b.start) < 0
StartBefore(a, b) == StrLess(a.start, b.start)

\* Array.prototype.sort by start date: stable.
\* t is placed before the first task that does not start before it, so
\* tasks of equal start keep their order.
RECURSIVE InsertByStart(_, _)
InsertByStart(t, sorted) ==
    IF sorted = <<>> THEN <<t>>
    ELSE IF ~StartBefore(Head(sorted), t) THEN <<t>> \o sorted
    ELSE <<Head(sorted)>> \o InsertByStart(t, Tail(sorted))

RECURSIVE SortByStart(_)
SortByStart(ts) ==
    IF ts = <<>> THEN <<>>
    ELSE InsertByStart(Head(ts), SortByStart(Tail(ts)))

\* taskById: id -> task, a later task replacing an earlier one of the same id.
RECURSIVE BuildTaskMap(_, _)
BuildTaskMap(tasks, m) ==
    IF tasks = <<>> THEN m
    ELSE BuildTaskMap(Tail(tasks), MapSet(m, Head(tasks).id, Head(tasks)))

\* The dependency ids of a task, those that name no task of the map
\* included.
DepsIn_Unfiltered(task, taskById) ==
    IF task.dependencies = <<>> THEN {}
    ELSE LET pieces == split(task.dependencies, ",")
         IN  { trim(pieces[i]) : i \in 1..Len(pieces) } \ {<<>>}

\* The dependency ids of a task that name a task of the map.
DepsIn(task, taskById) ==
    IF task.dependencies = <<>> THEN {}
    ELSE LET pieces == split(task.dependencies, ",")
         IN  { trim(pieces[i]) : i \in 1..Len(pieces) }
               \cap (DOMAIN taskById \ {<<>>})

\* depsOf: id -> set of dependency ids, a later task replacing an earlier one.
RECURSIVE BuildDepsOf(_, _, _)
BuildDepsOf(tasks, taskById, m) ==
    IF tasks = <<>> THEN m
    ELSE BuildDepsOf(Tail(tasks), taskById,
             MapSet(m, Head(tasks).id, DepsIn(Head(tasks), taskById)))

\* The ids of the tasks in order, each once: new Set(tasks.map(t => t.id)).
RECURSIVE IdsInOrder(_, _)
IdsInOrder(tasks, seen) ==
    IF tasks = <<>> THEN <<>>
    ELSE IF Head(tasks).id \in seen THEN IdsInOrder(Tail(tasks), seen)
    ELSE <<Head(tasks).id>> \o IdsInOrder(Tail(tasks), seen \cup {Head(tasks).id})

\* The ids of a sequence that satisfy Keep, in order.
SelectIds(ids, keep) == SelectSeq(ids, LAMBDA id : id \in keep)

TasksOf(ids, taskById) == [i \in 1..Len(ids) |-> taskById[ids[i]]]

\* The while loop: each round appends the remaining tasks whose
\* dependencies are all placed, by start date; a round without any appends
\* all the remaining tasks by start date and stops.
RECURSIVE SortLoop(_, _, _, _, _)
SortLoop(remaining, placed, sorted, taskById, depsOf) ==
    IF remaining = <<>> THEN sorted
    ELSE LET readyIds == { remaining[i] : i \in { j \in 1..Len(remaining) :
                                 depsOf[remaining[j]] \subseteq placed } }
             ready    == SortByStart(TasksOf(SelectIds(remaining, readyIds), taskById))
         IN  IF readyIds = {}
             THEN sorted \o SortByStart(TasksOf(remaining, taskById))
             ELSE SortLoop(SelectSeq(remaining, LAMBDA id : id \notin readyIds),
                           placed \cup readyIds, sorted \o ready, taskById, depsOf)

\* A sorter that orders by start date alone.
sortByDependencies_ByStartOnly(tasks) ==
    IF Len(tasks) <= 1 THEN tasks ELSE SortByStart(tasks)

sortByDependencies(tasks) ==
    IF Len(tasks) <= 1 THEN tasks
    ELSE LET taskById == BuildTaskMap(tasks, EmptyMap)
             depsOf  == BuildDepsOf(tasks, taskById, EmptyMap)
         IN  SortLoop(IdsInOrder(tasks, {}), {}, <<>>, taskById, depsOf)

\* mapEntriesToTasks(entries, config) in time zone z.
mapEntriesToTasks(entries, config, z) ==
    IF config.startProperty = NoProp THEN <<>>
    ELSE LET nameToId    == BuildNameToId(entries, EmptyMap)
             colorValues == IF config.colorByProperty # NoProp
                            THEN BuildColorValues(entries, config.colorByProperty, EmptyMap)
                            ELSE EmptyMap
         IN  sortByDependencies(BuildTasks(entries, config, nameToId, colorValues, z))

(***************************************************************************)
(* Calendar dates as written: YYYY-MM-DD                                   *)
(***************************************************************************)
IsLeap(y) == (y % 4 = 0 /\ y % 100 # 0) \/ y % 400 = 0

DaysInMonth(y, m) ==
    IF m = 2 THEN (IF IsLeap(y) THEN 29 ELSE 28)
    ELSE IF m \in {4, 6, 9, 11} THEN 30 ELSE 31

\* The text YYYY-MM-DD of a calendar date.
Iso(y, m, d) ==
    padStart(NumToStr(y), 4) \o <<"-">> \o padStart(NumToStr(m), 2)
      \o <<"-">> \o padStart(NumToStr(d), 2)

(***************************************************************************)
(* Specification of the date utilities: a valid YYYY-MM-DD string is       *)
(* parsed and formatted back in some time zone.                            *)
(***************************************************************************)
TimeZones == {-720, -480, 0, 330, 840}

DateYears == {999, 2023, 2024}
DateDays == {1, 28, 29, 30, 31}

ValidDateStrings ==
    { Iso(y, m, d) : <<y, m, d>> \in
        { c \in DateYears \X (1..12) \X DateDays : c[3] <= DaysInMonth(c[1], c[2]) } }

NoStr == <<"?">>

ViewIdle ==
    /\ vault = <<>>
    /\ groups = <<>>
    /\ viewConfig = <<>>
    /\ currentTasks = <<>>
    /\ taskMap = <<>>
    /\ gantt = <<>>
    /\ configSnapshot = <<>>
    /\ justDragged = FALSE
    /\ opened = <<>>
    /\ timers = 0
    /\ pending = <<>>

MapIdle ==
    /\ mEntries = <<>>
    /\ mConfig = <<>>
    /\ mTasks = <<>>
    /\ mPhase = "idle"

DateInit ==
    /\ tz \in TimeZones
    /\ dIn \in ValidDateStrings
    /\ dOut = NoStr
    /\ dPhase = "in"
    /\ MapIdle
    /\ ViewIdle

RoundTrip ==
    /\ dPhase = "in"
    /\ dOut' = formatDateForGantt(parseObsidianDate(Str(dIn), tz), tz)
    /\ dPhase' = "out"
    /\ UNCHANGED <<tz, dIn, mapVars, viewVars>>

DateNext == RoundTrip

SpecDate == DateInit /\ [][DateNext]_vars

\* C6: for every valid calendar date written as YYYY-MM-DD,
\* formatDateForGantt(parseObsidianDate(s)) = s in every time zone.
C6_RoundTrip == dPhase = "out" => dOut = dIn

\* The same for the years written with four significant digits.
C6_RoundTripFrom1000 ==
    (dPhase = "out" /\ StrToNum(SubSeq(dIn, 1, 4)) >= 1000) => dOut = dIn

(***************************************************************************)
(* Specification of the mapper: mEntries are added one at a time, then      *)
(* mapEntriesToTasks is called on them.                                    *)
(***************************************************************************)
MaxEntries == 2

StartProp == NoteProp(<<"start">>)
EndProp == NoteProp(<<"end">>)
DepsProp == NoteProp(<<"depends", "-", "on">>)

PathSpace == <<"A", " ", "B", ".", "md">>
PathUnder == <<"A", "_", "B", ".", "md">>
PathC == <<"C", ".", "md">>

MapperConfig(start, end, deps) ==
    [ startProperty        |-> start,
      endProperty          |-> end,
      labelProperty        |-> NoProp,
      dependenciesProperty |-> deps,
      colorByProperty      |-> NoProp,
      progressProperty     |-> NoProp,
      showProgress         |-> FALSE ]

Entry(path, start, end, deps) ==
    [ path |-> path,
      fm   |-> (<<"start">> :> start) @@ (<<"end">> :> end)
                 @@ (<<"depends", "-", "on">> :> deps) ]

Feb28 == Iso(2024, 2, 28)
Dec31 == Iso(2023, 12, 31)
Feb29At(h1, h2, m1, m2) == Iso(2024, 2, 29) \o <<" ", h1, h2, ":", m1, m2>>
NotADate == <<"t", "b", "d">>

MapStarts ==
    { NullValue, TextValue(NotADate), DateValue(Feb28), DateValue(Dec31),
      TextValue(Feb29At("1", "7", "3", "0")) }

MapEnds ==
    { NullValue, TextValue(NotADate), DateValue(Feb28),
      TextValue(Feb29At("0", "9", "0", "0")), TextValue(Feb29At("2", "3", "0", "0")) }

MapPaths == {PathSpace, PathUnder, PathC}
MapZones == {-480, 330}
MapConfigs ==
    { MapperConfig(StartProp, EndProp, NoProp), MapperConfig(StartProp, NoProp, NoProp),
      MapperConfig(NoProp, EndProp, NoProp) }

MapEntries == { Entry(p, s, e, NullValue) : <<p, s, e>> \in MapPaths \X MapStarts \X MapEnds }

DateIdle ==
    /\ dIn = <<>>
    /\ dOut = NoStr
    /\ dPhase = "idle"

MapInit ==
    /\ tz \in MapZones
    /\ mConfig \in MapConfigs
    /\ mEntries = <<>>
    /\ mTasks = <<>>
    /\ mPhase = "in"
    /\ DateIdle
    /\ ViewIdle

\* The record source hands over one more entry, of a file of its own.
AddEntry(e, max) ==
    /\ mPhase = "in"
    /\ Len(mEntries) < max
    /\ \A i \in 1..Len(mEntries) : mEntries[i].path # e.path
    /\ mEntries' = Append(mEntries, e)
    /\ UNCHANGED <<tz, mConfig, mTasks, mPhase, dateVars, viewVars>>

\* mapEntriesToTasks(entries, config)
Map ==
    /\ mPhase = "in"
    /\ mTasks' = mapEntriesToTasks(mEntries, mConfig, tz)
    /\ mPhase' = "out"
    /\ UNCHANGED <<tz, mConfig, mEntries, dateVars, viewVars>>

MapNext ==
    \/ \E e \in MapEntries : AddEntry(e, MaxEntries)
    \/ Map

SpecMap == MapInit /\ [][MapNext]_vars

\* The day number of a stored date string, as the widget reads it.
DayNumber(s) ==
    LET p == split(s, "-")
    IN  DaysFromCivil(StrToNum(p[1]), StrToNum(p[2]), StrToNum(p[3]))

RawStart(e) == parseObsidianDate(extractRawValue(getValue(e, mConfig.startProperty)), tz)
RawEnd(e) ==
    IF mConfig.endProperty = NoProp THEN InvalidDate
    ELSE parseObsidianDate(extractRawValue(getValue(e, mConfig.endProperty)), tz)

EntryOf(t) == CHOOSE i \in 1..Len(mEntries) : mEntries[i].path = t.filePath

\* C2: every task returned has a stored end that is not earlier than its
\* stored start, also when the record's own end is earlier than its start.
C2_EndNotBeforeStart ==
    mPhase = "out" =>
        \A i \in 1..Len(mTasks) : DayNumber(mTasks[i].end) >= DayNumber(mTasks[i].start)

C2_Witness ==
    /\ mPhase = "out"
    /\ \E i \in 1..Len(mTasks) :
          LET e == mEntries[EntryOf(mTasks[i])]
          IN  RawEnd(e).ok /\ RawEnd(e).t < RawStart(e).t

\* C9: with a start role assigned, the returned list holds a task for a
\* record exactly when that record's start parses to a date.
C9_TaskIffStartParses ==
    (mPhase = "out" /\ mConfig.startProperty # NoProp) =>
        \A i \in 1..Len(mEntries) :
            (\E j \in 1..Len(mTasks) : mTasks[j].filePath = mEntries[i].path)
                <=> RawStart(mEntries[i]).ok

\* C10: when a record's end is absent, unparseable or earlier than its
\* start, the stored end is the calendar day after the stored start.
C10_DefaultEndIsNextDay ==
    mPhase = "out" =>
        \A i \in 1..Len(mTasks) :
            LET e == mEntries[EntryOf(mTasks[i])]
            IN  (~RawEnd(e).ok \/ RawEnd(e).t < RawStart(e).t) =>
                    LET c == CivilFromDays(DayNumber(mTasks[i].start) + 1)
                    IN  mTasks[i].end = Iso(c.y, c.m, c.d)

C10_Witness ==
    /\ mPhase = "out"
    /\ \E i \in 1..Len(mTasks) :
          /\ ~RawEnd(mEntries[EntryOf(mTasks[i])]).ok
          /\ mTasks[i].start = Dec31
          /\ mTasks[i].end = Iso(2024, 1, 1)

\* C11: a record whose end is absent, unparseable or earlier than its
\* start never yields a milestone; every other task has isMilestone exactly
\* when the record's own start and end are the same day in YYYY-MM-DD form.
C11_MilestoneIffSameDay ==
    mPhase = "out" =>
        \A i \in 1..Len(mTasks) :
            LET e == mEntries[EntryOf(mTasks[i])]
            IN  IF ~RawEnd(e).ok \/ RawEnd(e).t < RawStart(e).t
                THEN ~mTasks[i].isMilestone
                ELSE mTasks[i].isMilestone <=>
                         formatDateForGantt(RawStart(e), tz)
                           = formatDateForGantt(RawEnd(e), tz)

(***************************************************************************)
(* Specification of the mapper on records with dependencies: the same      *)
(* actions on entries that link to one another.                            *)
(***************************************************************************)
MaxSortEntries == 3

PathD == <<"D", ".", "md">>

Link(name) == <<"[[">> \o name \o <<"]]">>

SortPaths == {PathSpace, PathUnder, PathC, PathD}
SortStarts == { DateValue(Feb28), DateValue(Dec31) }
\* A wiki-link token [[target]] or [[target|alias]] and the text of a list
\* of tokens, separated by ", ".
Token(target, alias) == [target |-> target, alias |-> alias]

TokenText(tk) ==
    IF tk.alias = <<>> THEN Link(tk.target)
    ELSE <<"[[">> \o tk.target \o <<"|">> \o tk.alias \o <<"]]">>

RECURSIVE WikiText(_)
WikiText(tokens) ==
    IF tokens = <<>> THEN <<>>
    ELSE IF Len(tokens) = 1 THEN TokenText(tokens[1])
    ELSE TokenText(tokens[1]) \o <<",", " ">> \o WikiText(Tail(tokens))

\* The dependency texts of the records, as lists of tokens: a link to C, a
\* link to A B, and a link to C, an aliased link to D and a link to no
\* record.
SortDepTokens ==
    { <<Token(<<"C">>, <<>>)>>,
      <<Token(<<"A", " ", "B">>, <<>>)>>,
      <<Token(<<"C">>, <<>>), Token(<<"D">>, <<"the", " ", "d">>),
        Token(<<"X">>, <<>>)>> }

SortDeps == {NullValue} \cup { TextValue(WikiText(tokens)) : tokens \in SortDepTokens }

SortEntries ==
    { Entry(p, s, NullValue, d) : <<p, s, d>> \in SortPaths \X SortStarts \X SortDeps }

SortInit ==
    /\ tz = 0
    /\ mConfig = MapperConfig(StartProp, NoProp, DepsProp)
    /\ mEntries = <<>>
    /\ mTasks = <<>>
    /\ mPhase = "in"
    /\ DateIdle
    /\ ViewIdle

SortNext ==
    \/ \E e \in SortEntries : AddEntry(e, MaxSortEntries)
    \/ Map

SpecSort == SortInit /\ [][SortNext]_vars

\* The dependency ids of a task, as its dependencies string lists them.
DepIds(t) ==
    IF t.dependencies = <<>> THEN {}
    ELSE LET pieces == split(t.dependencies, ",")
         IN  { trim(pieces[i]) : i \in 1..Len(pieces) } \ {<<>>}

TaskIds(ts) == { ts[i].id : i \in 1..Len(ts) }

\* b is a dependency of a among the tasks ts.
DependsOn(ts, a, b) ==
    b \in TaskIds(ts) /\ \E i \in 1..Len(ts) : ts[i].id = a /\ b \in DepIds(ts[i])

\* The ids reached from the ids of from in at most n steps of DependsOn.
RECURSIVE Reach(_, _, _)
Reach(ts, from, n) ==
    IF n = 0 THEN from
    ELSE LET next == { b \in TaskIds(ts) : \E a \in from : DependsOn(ts, a, b) }
         IN  next \cup Reach(ts, next, n - 1)

Acyclic(ts) ==
    \A a \in TaskIds(ts) :
        a \notin Reach(ts, { b \in TaskIds(ts) : DependsOn(ts, a, b) }, Len(ts))

\* The tasks handed to sortByDependencies.
Unsorted ==
    IF mConfig.startProperty = NoProp THEN <<>>
    ELSE BuildTasks(mEntries, mConfig, BuildNameToId(mEntries, EmptyMap), EmptyMap, tz)

\* C3: when the dependency relation of the tasks is acyclic, every task of
\* the returned list comes after every task of the list it depends on.
C3_DependenciesFirst ==
    (mPhase = "out" /\ Acyclic(mTasks)) =>
        \A i, j \in 1..Len(mTasks) :
            mTasks[j].id \in DepIds(mTasks[i]) => j < i

C3_Witness ==
    /\ mPhase = "out"
    /\ Acyclic(mTasks)
    /\ Len(mTasks) = 3
    /\ mTasks[1].id \in DepIds(mTasks[2])
    /\ mTasks[2].id \in DepIds(mTasks[3])
    /\ StrLess(mTasks[3].start, mTasks[2].start)

Count(ts, t) == Cardinality({ i \in 1..Len(ts) : ts[i] = t })

\* C4: the sorter's output holds every input task exactly once, also with
\* dependency cycles and dangling dependencies.
C4_SortIsPermutation ==
    mPhase = "out" =>
        /\ Len(mTasks) = Len(Unsorted)
        /\ \A i \in 1..Len(Unsorted) : Count(mTasks, Unsorted[i]) = 1

\* The ids of the records of mEntries that a file name or a path without
\* extension names.
NamedIds(name) ==
    { makeTaskId(mEntries[i].path) :
        i \in { k \in 1..Len(mEntries) :
                  Basename(mEntries[k].path) = name \/ PathNoExt(mEntries[k].path) = name } }

\* The ids that a list of wiki-link tokens names, in token order; a token
\* that names no record gives nothing.
RECURSIVE ExpectedIds(_)
ExpectedIds(tokens) ==
    IF tokens = <<>> THEN <<>>
    ELSE (IF NamedIds(trim(Head(tokens).target)) = {} THEN <<>>
          ELSE <<CHOOSE id \in NamedIds(trim(Head(tokens).target)) : TRUE>>)
           \o ExpectedIds(Tail(tokens))

FilePaths(ts) == { ts[i].filePath : i \in 1..Len(ts) }

\* C12: the dependencies of a task whose record holds wiki-link tokens are
\* exactly the ids of the records that the tokens' targets name, in token
\* order, an alias being ignored; a token that names no record contributes
\* nothing and excludes no record from the output.
C12_WikiLinksResolveInOrder ==
    mPhase = "out" =>
        /\ \A i \in 1..Len(mTasks) : \A tokens \in SortDepTokens :
               getValue(mEntries[EntryOf(mTasks[i])], mConfig.dependenciesProperty)
                   = TextValue(WikiText(tokens))
               => mTasks[i].dependencies = join(ExpectedIds(tokens), <<",", " ">>)
        /\ FilePaths(mTasks)
             = FilePaths(mapEntriesToTasks(mEntries,
                             [mConfig EXCEPT !.dependenciesProperty = NoProp], tz))

C12_Witness ==
    /\ mPhase = "out"
    /\ \E i \in 1..Len(mTasks) :
          /\ getValue(mEntries[EntryOf(mTasks[i])], mConfig.dependenciesProperty)
                = TextValue(WikiText(<<Token(<<"C">>, <<>>),
                                       Token(<<"D">>, <<"the", " ", "d">>),
                                       Token(<<"X">>, <<>>)>>))
          /\ mTasks[i].dependencies
                = makeTaskId(PathC) \o <<",", " ">> \o makeTaskId(PathD)

\* C13: every id in a task's dependency list is the id of another task of
\* the same output list, never the id of the task itself.
C13_DependenciesAreOtherTasks ==
    mPhase = "out" =>
        \A i \in 1..Len(mTasks) :
            DepIds(mTasks[i]) \subseteq (TaskIds(mTasks) \ {mTasks[i].id})

(***************************************************************************)
(* Dependency texts with and without wiki-link brackets                    *)
(***************************************************************************)
MaxDepEntries == 3

\* A dependency text with what it holds: its complete wiki-link tokens, the
\* trimmed pieces between its commas, and whether "[[" occurs in it.
DepCase(text, tokens, names, brackets) ==
    [text |-> text, tokens |-> tokens, names |-> names, brackets |-> brackets]

\* "C, D"; "C, [[D" (a link left open); "[[X]], C" (a link to no record);
\* "[[D]]".
DepCases ==
    { DepCase(<<"C", ",", " ", "D">>, <<>>, << <<"C">>, <<"D">> >>, FALSE),
      DepCase(<<"C", ",", " ", "[[", "D">>, <<>>, << <<"C">>, <<"[[", "D">> >>, TRUE),
      DepCase(Link(<<"X">>) \o <<",", " ", "C">>, <<Token(<<"X">>, <<>>)>>,
              << Link(<<"X">>), <<"C">> >>, TRUE),
      DepCase(Link(<<"D">>), <<Token(<<"D">>, <<>>)>>, << Link(<<"D">>) >>, TRUE) }

DepTexts == {NullValue} \cup { TextValue(c.text) : c \in DepCases }

DepEntries ==
    { Entry(p, DateValue(Feb28), NullValue, d) : <<p, d>> \in SortPaths \X DepTexts }

DepInit ==
    /\ tz = 0
    /\ mConfig = MapperConfig(StartProp, NoProp, DepsProp)
    /\ mEntries = <<>>
    /\ mTasks = <<>>
    /\ mPhase = "in"
    /\ DateIdle
    /\ ViewIdle

DepNext ==
    \/ \E e \in DepEntries : AddEntry(e, MaxDepEntries)
    \/ Map

SpecDeps == DepInit /\ [][DepNext]_vars

\* The ids that a list of plain names names, in order.
RECURSIVE PlainIds(_)
PlainIds(names) ==
    IF names = <<>> THEN <<>>
    ELSE (IF NamedIds(Head(names)) = {} THEN <<>>
          ELSE <<CHOOSE id \in NamedIds(Head(names)) : TRUE>>)
           \o PlainIds(Tail(names))

\* The dependency text case of the record of a task.
DepCaseOf(t, c) ==
    getValue(mEntries[EntryOf(t)], mConfig.dependenciesProperty) = TextValue(c.text)

\* C14 as stated: the plain names between the commas are looked up exactly
\* when the text holds no complete wiki-link token; with a token, only the
\* tokens are looked up.
C14_PlainNamesIffNoToken ==
    mPhase = "out" =>
        \A i \in 1..Len(mTasks) : \A c \in DepCases :
            DepCaseOf(mTasks[i], c) =>
                mTasks[i].dependencies
                  = join(IF c.tokens = <<>> THEN PlainIds(c.names)
                         ELSE ExpectedIds(c.tokens), <<",", " ">>)

\* C14 amended: the plain names between the commas are looked up exactly
\* when the text holds no "[[" at all; with a "[[" in the text only the
\* complete wiki-link tokens are looked up, also when there is none or none
\* names a record.
C14_PlainNamesIffNoBrackets ==
    mPhase = "out" =>
        \A i \in 1..Len(mTasks) : \A c \in DepCases :
            DepCaseOf(mTasks[i], c) =>
                mTasks[i].dependencies
                  = join(IF ~c.brackets THEN PlainIds(c.names)
                         ELSE ExpectedIds(c.tokens), <<",", " ">>)

C14_Witness ==
    /\ mPhase = "out"
    /\ \E i, j, k \in 1..Len(mTasks) :
          /\ mTasks[i].id = makeTaskId(PathC)
          /\ DepCaseOf(mTasks[j], DepCase(<<"C", ",", " ", "[[", "D">>, <<>>,
                                          << <<"C">>, <<"[[", "D">> >>, TRUE))
          /\ mTasks[j].dependencies = <<>>
          /\ mTasks[k].filePath = PathSpace
          /\ DepCaseOf(mTasks[k], DepCase(<<"C", ",", " ", "D">>, <<>>,
                                          << <<"C">>, <<"D">> >>, FALSE))
          /\ mTasks[k].dependencies = makeTaskId(PathC) \o <<",", " ">> \o makeTaskId(PathD)

(***************************************************************************)
(* Dependencies on records without a task                                  *)
(***************************************************************************)
DanglingStarts == { NullValue, DateValue(Feb28), DateValue(Dec31) }
DanglingDeps == { NullValue, TextValue(Link(<<"C">>)), TextValue(Link(<<"D">>)) }

DanglingEntries ==
    { Entry(p, s, NullValue, d) : <<p, s, d>> \in SortPaths \X DanglingStarts \X DanglingDeps }

DanglingNext ==
    \/ \E e \in DanglingEntries : AddEntry(e, MaxDepEntries)
    \/ Map

SpecDangling == DepInit /\ [][DanglingNext]_vars

\* The task has a dependency that names no task of ts.
HasDangling(ts, t) == DepIds(t) \ TaskIds(ts) # {}

\* C25 as stated: a task with a dependency on a task outside the list never
\* qualifies in the stepwise selection and is placed by the fallback, which
\* appends all the remaining tasks by start date: from such a task on, the
\* list is in the order of the starts.
C25_DanglingPlacedByFallback ==
    mPhase = "out" =>
        \A i \in 1..Len(mTasks) :
            HasDangling(mTasks, mTasks[i]) =>
                \A j, k \in i..Len(mTasks) :
                    j < k => ~StrLess(mTasks[k].start, mTasks[j].start)

\* C25 amended: a dependency on a task outside the list is ignored by the
\* sorter; with such dependencies in the list and no cycle among the tasks,
\* every task still comes after every task of the list it depends on.
C25_DanglingIgnored ==
    (mPhase = "out" /\ Acyclic(mTasks)
       /\ \E i \in 1..Len(mTasks) : HasDangling(mTasks, mTasks[i])) =>
        \A i, j \in 1..Len(mTasks) :
            mTasks[j].id \in DepIds(mTasks[i]) => j < i

\* D.md depends on C.md, which has no task; A B.md starts earlier and
\* depends on D.md, and comes after it.
C25_Witness ==
    /\ mPhase = "out"
    /\ Len(mTasks) = 2
    /\ mTasks[1].filePath = PathD
    /\ DepIds(mTasks[1]) = {makeTaskId(PathC)}
    /\ HasDangling(mTasks, mTasks[1])
    /\ mTasks[2].filePath = PathSpace
    /\ DepIds(mTasks[2]) = {makeTaskId(PathD)}
    /\ StrLess(mTasks[2].start, mTasks[1].start)

(***************************************************************************)
(* The name index over notes in folders                                    *)
(***************************************************************************)
PathT == <<"T", ".", "md">>
PathFolderT == <<"x", "/", "T", ".", "md">>

IndexPaths == {PathT, PathFolderT, PathC}
IndexDeps ==
    { NullValue, TextValue(Link(PathNoExt(PathT))), TextValue(Link(PathNoExt(PathFolderT))) }

IndexEntries ==
    { Entry(p, DateValue(Feb28), NullValue, d) : <<p, d>> \in IndexPaths \X IndexDeps }

IndexNext ==
    \/ \E e \in IndexEntries : AddEntry(e, MaxDepEntries)
    \/ Map

SpecIndex == DepInit /\ [][IndexNext]_vars

\* C26: a link whose target is the path without extension of a record
\* resolves to the id of that record, whatever the other records and the
\* order of the records are.
C26_FullPathKeyUnambiguous ==
    mPhase = "out" =>
        \A i \in 1..Len(mTasks) : \A k \in 1..Len(mEntries) :
            getValue(mEntries[EntryOf(mTasks[i])], mConfig.dependenciesProperty)
                = TextValue(Link(PathNoExt(mEntries[k].path)))
            => mTasks[i].dependencies = makeTaskId(mEntries[k].path)

(***************************************************************************)
(* task-mapper: group headers                                              *)
(***************************************************************************)
\* The least start of the tasks, by string comparison, from minStart on.
RECURSIVE MinStartOf(_, _)
MinStartOf(ts, minStart) ==
    IF ts = <<>> THEN minStart
    ELSE MinStartOf(Tail(ts), IF StrLess(Head(ts).start, minStart)
                              THEN Head(ts).start ELSE minStart)

\* The greatest end of the tasks, by string comparison, from maxEnd on.
RECURSIVE MaxEndOf(_, _)
MaxEndOf(ts, maxEnd) ==
    IF ts = <<>> THEN maxEnd
    ELSE MaxEndOf(Tail(ts), IF StrLess(maxEnd, Head(ts).end)
                            THEN Head(ts).end ELSE maxEnd)

\* createGroupHeaderTask(groupLabel, groupIndex, groupTasks) for a group
\* with tasks; the header has no isMilestone, which reads as false.
createGroupHeaderTask(groupLabel, groupIndex, groupTasks) ==
    [ id           |-> GROUP_HEADER_PREFIX \o NumToStr(groupIndex),
      name         |-> groupLabel,
      start        |-> MinStartOf(groupTasks, groupTasks[1].start),
      end          |-> MaxEndOf(groupTasks, groupTasks[1].end),
      progress     |-> 0,
      dependencies |-> <<>>,
      custom_class |-> <<"gantt-group-header">>,
      filePath     |-> <<>>,
      isMilestone  |-> FALSE ]

(***************************************************************************)
(* gantt-view: the mapper configuration                                    *)
(***************************************************************************)
UpperChars == <<"A", "B", "C", "D", "E", "F", "G", "H", "I", "J", "K", "L", "M",
                "N", "O", "P", "Q", "R", "S", "T", "U", "V", "W", "X", "Y", "Z">>
LowerChars == <<"a", "b", "c", "d", "e", "f", "g", "h", "i", "j", "k", "l", "m",
                "n", "o", "p", "q", "r", "s", "t", "u", "v", "w", "x", "y", "z">>

\* s.toLowerCase()
toLowerCase(s) ==
    [i \in 1..Len(s) |->
        IF \E k \in 1..Len(UpperChars) : UpperChars[k] = s[i]
        THEN LowerChars[CHOOSE k \in 1..Len(UpperChars) : UpperChars[k] = s[i]]
        ELSE s[i]]

\* s.replace(/[-_]/g, '')
RECURSIVE StripDashes(_)
StripDashes(s) ==
    IF s = <<>> THEN <<>>
    ELSE (IF Head(s) \in {"-", "_"} THEN <<>> ELSE <<Head(s)>>) \o StripDashes(Tail(s))

\* s.includes(k)
includes(s, k) ==
    \E i \in 1..(Len(s) - Len(k) + 1) : SubSeq(s, i, i + Len(k) - 1) = k

\* getName(id): the property name in lower case without - and _.
getName(id) == StripDashes(toLowerCase(extractPropertyName(id)))

startKeywords ==
    <<<<"s", "t", "a", "r", "t">>,
       <<"b", "e", "g", "i", "n">>,
       <<"f", "r", "o", "m">>,
       <<"c", "r", "e", "a", "t", "e", "d">>>>
endKeywords ==
    <<<<"e", "n", "d">>,
       <<"d", "u", "e">>,
       <<"f", "i", "n", "i", "s", "h">>,
       <<"d", "e", "a", "d", "l", "i", "n", "e">>,
       <<"u", "n", "t", "i", "l">>>>
depKeywords ==
    <<<<"d", "e", "p", "e", "n", "d">>,
       <<"b", "l", "o", "c", "k">>,
       <<"a", "f", "t", "e", "r">>,
       <<"p", "r", "e", "r", "e", "q", "u", "i", "s", "i", "t", "e">>,
       <<"r", "e", "q", "u", "i", "r", "e", "s">>>>
progressKeywords ==
    <<<<"p", "r", "o", "g", "r", "e", "s", "s">>,
       <<"p", "e", "r", "c", "e", "n", "t">>,
       <<"c", "o", "m", "p", "l", "e", "t", "i", "o", "n">>,
       <<"c", "o", "m", "p", "l", "e", "t", "e">>,
       <<"d", "o", "n", "e">>>>
colorKeywords ==
    <<<<"s", "t", "a", "t", "u", "s">>,
       <<"p", "r", "i", "o", "r", "i", "t", "y">>,
       <<"t", "y", "p", "e">>,
       <<"c", "a", "t", "e", "g", "o", "r", "y">>,
       <<"p", "h", "a", "s", "e">>,
       <<"s", "t", "a", "g", "e">>>>

\* findByKeywords(props, keywords): the first property whose name includes
\* one of the keywords, null when there is none.
RECURSIVE findByKeywords(_, _)
findByKeywords(props, keywords) ==
    IF props = <<>> THEN NoProp
    ELSE IF \E k \in 1..Len(keywords) : includes(getName(Head(props)), keywords[k])
    THEN Head(props)
    ELSE findByKeywords(Tail(props), keywords)

\* The properties of allProperties whose value on the first entry is of
\* one of the kinds, in order; a property the entry does not have is left out.
RECURSIVE PropsOfKind(_, _, _)
PropsOfKind(allProperties, firstEntry, kinds) ==
    IF allProperties = <<>> THEN <<>>
    ELSE (IF getValue(firstEntry, Head(allProperties)).kind \in kinds
          THEN <<Head(allProperties)>> ELSE <<>>)
           \o PropsOfKind(Tail(allProperties), firstEntry, kinds)

\* dateProps.find(p => p !== start) ?? null
RECURSIVE FirstOther(_, _)
FirstOther(props, start) ==
    IF props = <<>> THEN NoProp
    ELSE IF Head(props) # start THEN Head(props)
    ELSE FirstOther(Tail(props), start)

\* autoDetectProperties() over this.data.data and this.allProperties
autoDetectProperties(entries, allProperties) ==
    IF entries = <<>>
    THEN [start |-> NoProp, end |-> NoProp, dependencies |-> NoProp,
          progress |-> NoProp, colorBy |-> NoProp]
    ELSE LET firstEntry  == entries[1]
             dateProps   == PropsOfKind(allProperties, firstEntry, {"date"})
             numberProps == PropsOfKind(allProperties, firstEntry, {"number"})
             stringProps == PropsOfKind(allProperties, firstEntry, {"text", "null"})
             byName      == findByKeywords(dateProps, startKeywords)
             endByName   == findByKeywords(dateProps, endKeywords)
             start       == IF byName = NoProp /\ Len(dateProps) > 0
                            THEN dateProps[1] ELSE byName
             end         == IF endByName = NoProp /\ Len(dateProps) > 1
                            THEN FirstOther(dateProps, start) ELSE endByName
         IN  [ start        |-> start,
               end          |-> end,
               dependencies |-> findByKeywords(stringProps, depKeywords),
               progress     |-> findByKeywords(numberProps, progressKeywords),
               colorBy      |-> findByKeywords(stringProps, colorKeywords) ]

\* a ?? b for property ids
Coalesce(a, b) == IF a # NoProp THEN a ELSE b

\* getTaskMapperConfig() over this.config, this.data.data and
\* this.allProperties; the option showProgress is "true", "false" or "unset".
getTaskMapperConfig(cfg, entries) ==
    LET detect   == cfg.startDate = NoProp /\ Len(entries) > 0
        detected == autoDetectProperties(entries, cfg.allProperties)
        progressProperty ==
            IF detect THEN Coalesce(detected.progress, cfg.progress) ELSE cfg.progress
    IN  [ startProperty        |-> IF detect THEN Coalesce(detected.start, cfg.startDate)
                                   ELSE cfg.startDate,
          endProperty          |-> IF detect THEN Coalesce(detected.end, cfg.endDate)
                                   ELSE cfg.endDate,
          labelProperty        |-> cfg.label,
          dependenciesProperty |-> IF detect
                                   THEN Coalesce(detected.dependencies, cfg.dependencies)
                                   ELSE cfg.dependencies,
          colorByProperty      |-> IF detect THEN Coalesce(detected.colorBy, cfg.colorBy)
                                   ELSE cfg.colorBy,
          progressProperty     |-> progressProperty,
          showProgress         |-> IF cfg.showProgress = "unset"
                                   THEN progressProperty # NoProp
                                   ELSE cfg.showProgress = "true" ]

\* getDisplayConfigSnapshot(): of the display options, showProgress alone
\* varies in the model.
getDisplayConfigSnapshot(cfg) == cfg.showProgress

(***************************************************************************)
(* gantt-view: the detection of the roles over the properties of a view    *)
(***************************************************************************)
MaxProps == 3

\* A property of the notes: its name and the kind of value the first entry
\* holds for it.
Field(name, kind) == [name |-> name, kind |-> kind]

WhenName == <<"w", "h", "e", "n">>

DetectFields ==
    { Field(<<"s", "t", "a", "r", "t">>, "date"),
      Field(<<"c", "r", "e", "a", "t", "e", "d">>, "date"),
      Field(<<"e", "n", "d", "-", "d", "a", "t", "e">>, "date"),
      Field(<<"d", "u", "e">>, "date"),
      Field(<<"w", "h", "e", "n">>, "date"),
      Field(<<"b", "l", "o", "c", "k", "e", "d", "-", "s", "t", "a", "t", "u", "s">>, "text"),
      Field(<<"p", "r", "i", "o", "r", "i", "t", "y">>, "text"),
      Field(<<"p", "r", "o", "g", "r", "e", "s", "s">>, "number"),
      Field(<<"t", "i", "t", "l", "e">>, "text") }

\* this.allProperties: up to MaxProps distinct properties, in some order.
FieldSeqs ==
    { fs \in UNION { [1..n -> DetectFields] : n \in 0..MaxProps } :
        \A i, j \in 1..Len(fs) : i # j => fs[i] # fs[j] }

ValueOfKind(kind) ==
    IF kind = "date" THEN DateValue(Feb28)
    ELSE IF kind = "number" THEN NumberValue(<<"4", "0">>)
    ELSE TextValue(<<"x">>)

\* The first entry of the data: a note with a value for each property.
DetectEntry(fs) ==
    [ path |-> PathC,
      fm   |-> [ name \in { fs[i].name : i \in 1..Len(fs) } |->
                   ValueOfKind((CHOOSE f \in DetectFields : f.name = name).kind) ] ]

\* this.config with the start and end roles as given and the other roles
\* left to the detection.
DetectViewConfig(fs, start, end) ==
    [ startDate     |-> start,
      endDate       |-> end,
      label         |-> NoProp,
      dependencies  |-> NoProp,
      colorBy       |-> NoProp,
      progress      |-> NoProp,
      showProgress  |-> "unset",
      allProperties |-> [i \in 1..Len(fs) |-> NoteProp(fs[i].name)] ]

\* The roles the user pins: none, the start, or the end, to the property
\* "when".
DetectPins ==
    { <<NoProp, NoProp>>, <<NoteProp(WhenName), NoProp>>, <<NoProp, NoteProp(WhenName)>> }

DetectInit ==
    /\ tz = 0
    /\ \E fs \in FieldSeqs : \E pin \in DetectPins :
          /\ (pin # <<NoProp, NoProp>>) => (\E i \in 1..Len(fs) : fs[i].name = WhenName)
          /\ viewConfig = DetectViewConfig(fs, pin[1], pin[2])
          /\ mEntries = <<DetectEntry(fs)>>
    /\ mConfig = <<>>
    /\ mTasks = <<>>
    /\ mPhase = "in"
    /\ vault = <<>>
    /\ groups = <<>>
    /\ currentTasks = <<>>
    /\ taskMap = <<>>
    /\ gantt = <<>>
    /\ configSnapshot = <<>>
    /\ justDragged = FALSE
    /\ opened = <<>>
    /\ timers = 0
    /\ pending = <<>>
    /\ DateIdle

\* getTaskMapperConfig() on the configuration and the data of the view.
Detect ==
    /\ mPhase = "in"
    /\ mConfig' = getTaskMapperConfig(viewConfig, mEntries)
    /\ mPhase' = "out"
    /\ UNCHANGED <<tz, mEntries, mTasks, dateVars, viewVars>>

DetectNext == Detect

SpecDetect == DetectInit /\ [][DetectNext]_vars

(***************************************************************************)
(* gantt-view: rendering, the edit callbacks and the write-back            *)
(***************************************************************************)
MaxPending == 2
MaxTimers == 2
MaxOpened == 2

NoGantt == [live |-> FALSE, showProgress |-> FALSE]

StartName == <<"s", "t", "a", "r", "t">>
EndName == <<"d", "u", "e">>
ProgressName == <<"p", "r", "o", "g", "r", "e", "s", "s">>
TitleName == <<"t", "i", "t", "l", "e">>

\* The frontmatter of a note of the vault.
Note(start, end, progress) ==
    (StartName :> start) @@ (EndName :> end) @@ (ProgressName :> progress)
      @@ (TitleName :> TextValue(<<"x">>))

ViewVault ==
    (PathC :> Note(DateValue(Feb28), DateValue(Feb28), NullValue))
      @@ (PathSpace :> Note(DateValue(Feb28), NullValue, NumberValue(<<"4", "0">>)))
      @@ (PathUnder :> Note(DateValue(Dec31), DateValue(Feb28),
                            NumberValue(<<"4", "0", ".", "5">>)))

Group(hasKey, key, paths) == [hasKey |-> hasKey, key |-> key, paths |-> paths]

\* The groupings of the view over the notes A B and A_B: no grouping, and
\* a grouping by a property on which the two notes differ.
GroupingsAB ==
    { <<Group(FALSE, <<>>, <<PathSpace, PathUnder>>)>>,
      <<Group(TRUE, <<"todo">>, <<PathSpace>>), Group(TRUE, <<"done">>, <<PathUnder>>)>> }

\* The same groupings over the notes C and A B, where C alone has the
\* property.
GroupingsC ==
    { <<Group(FALSE, <<>>, <<PathC, PathSpace>>)>>,
      <<Group(TRUE, <<"done">>, <<PathC>>), Group(FALSE, <<>>, <<PathSpace>>)>> }

\* this.data.data: the files of the groups, in order.
RECURSIVE DataPaths(_)
DataPaths(gs) ==
    IF gs = <<>> THEN <<>> ELSE Head(gs).paths \o DataPaths(Tail(gs))

ViewConfig(start, end, progress, showProgress) ==
    [ startDate     |-> start,
      endDate       |-> end,
      label         |-> NoProp,
      dependencies  |-> NoProp,
      colorBy       |-> NoProp,
      progress      |-> progress,
      showProgress  |-> showProgress,
      allProperties |-> <<NoteProp(TitleName), NoteProp(EndName),
                          NoteProp(StartName), NoteProp(ProgressName)>> ]

\* The view options: every role pinned with the progress shown, the
\* roles left to the detection, and the start pinned alone.
PinnedConfig ==
    ViewConfig(NoteProp(StartName), NoteProp(EndName), NoteProp(ProgressName), "true")
DetectConfig == ViewConfig(NoProp, NoProp, NoProp, "unset")
StartOnlyConfig == ViewConfig(NoteProp(StartName), NoProp, NoProp, "unset")

\* The groupings and options the view starts with: every option over the
\* notes A B and A_B, the detected roles over C and A B.
ViewScenes ==
    (GroupingsAB \X {PinnedConfig, DetectConfig, StartOnlyConfig})
      \cup (GroupingsC \X {DetectConfig})

ViewZones == {330}

\* The entries of the files, each with the frontmatter the vault holds.
EntriesOf(paths, v) == [i \in 1..Len(paths) |-> [path |-> paths[i], fm |-> v[paths[i]]]]

ViewInit ==
    /\ tz \in ViewZones
    /\ vault = ViewVault
    /\ \E scene \in ViewScenes : groups = scene[1] /\ viewConfig = scene[2]
    /\ currentTasks = <<>>
    /\ taskMap = EmptyMap
    /\ gantt = NoGantt
    /\ configSnapshot = <<>>
    /\ justDragged = FALSE
    /\ opened = <<>>
    /\ timers = 0
    /\ pending = <<>>
    /\ DateIdle
    /\ MapIdle

\* The tasks of each group: one mapEntriesToTasks call per group.
GroupTaskLists(gs, v, config, z) ==
    [i \in 1..Len(gs) |-> mapEntriesToTasks(EntriesOf(gs[i].paths, v), config, z)]

\* The tasks of the groups from group i on: each group with tasks gets a
\* header, followed by its tasks.
RECURSIVE GroupedTasks(_, _, _)
GroupedTasks(gs, lists, i) ==
    IF i > Len(gs) THEN <<>>
    ELSE (IF lists[i] = <<>> THEN <<>>
          ELSE <<createGroupHeaderTask(
                     IF gs[i].hasKey THEN gs[i].key ELSE <<"Ungrouped">>,
                     i - 1, lists[i])>> \o lists[i])
           \o GroupedTasks(gs, lists, i + 1)

\* The tasks onDataUpdated builds from the data under the mapper
\* configuration.
RenderTasks(gs, v, config, z) ==
    IF Len(gs) > 1 \/ (Len(gs) = 1 /\ gs[1].hasKey)
    THEN GroupedTasks(gs, GroupTaskLists(gs, v, config, z), 1)
    ELSE mapEntriesToTasks(EntriesOf(DataPaths(gs), v), config, z)

\* The second half of onDataUpdated: the tasks and the id index are
\* replaced; without tasks the chart is dropped for the empty state, with
\* the same configuration the chart is refreshed, otherwise initGantt makes
\* a new chart that captures showProgress.
ShowTasks(tasks, newSnapshot) ==
    /\ currentTasks' = tasks
    /\ taskMap' = BuildTaskMap(tasks, EmptyMap)
    /\ IF tasks = <<>>
       THEN gantt' = NoGantt /\ UNCHANGED configSnapshot
       ELSE IF gantt.live /\ configSnapshot = newSnapshot
       THEN UNCHANGED <<gantt, configSnapshot>>
       ELSE /\ configSnapshot' = newSnapshot
            /\ gantt' = [live |-> TRUE,
                         showProgress |-> viewConfig.showProgress = "true"]
    /\ UNCHANGED <<tz, vault, groups, viewConfig, justDragged, opened, timers, pending,
                   dateVars, mapVars>>

\* onDataUpdated(): the tasks are built under the mapper configuration of
\* the call and shown.
onDataUpdated ==
    ShowTasks(RenderTasks(groups, vault,
                  getTaskMapperConfig(viewConfig, EntriesOf(DataPaths(groups), vault)), tz),
              <<getTaskMapperConfig(viewConfig, EntriesOf(DataPaths(groups), vault)),
                getDisplayConfigSnapshot(viewConfig)>>)

\* findTask(id)
findTask(id) == IF MapHas(taskMap, id) THEN <<taskMap[id]>> ELSE <<>>

\* writeFrontmatter without the check that the file exists.
writeFrontmatter_NoLookup(filePath, updates, origin) ==
    pending' = Append(pending, [file |-> filePath, updates |-> updates,
                                origin |-> origin])

\* writeFrontmatter(filePath, updates) up to its await: the file is looked
\* up and, when it exists, processFrontMatter is called.  origin is not
\* program state: it records the file of the task the callback was fired for.
writeFrontmatter(filePath, updates, origin) ==
    IF filePath \in DOMAIN vault
    THEN pending' = Append(pending, [file |-> filePath, updates |-> updates,
                                     origin |-> origin])
    ELSE UNCHANGED pending

\* The updates of a date change under the mapper configuration; the end
\* is assigned after the start.
DateUpdates(mapperConfig, start, end) ==
    (IF mapperConfig.endProperty # NoProp
     THEN extractPropertyName(mapperConfig.endProperty)
            :> DateValue(formatDateForFrontmatter(end, tz))
     ELSE EmptyMap)
    @@
    (IF mapperConfig.startProperty # NoProp
     THEN extractPropertyName(mapperConfig.startProperty)
            :> DateValue(formatDateForFrontmatter(start, tz))
     ELSE EmptyMap)

\* The date ranges a bar is dragged to, as local midnights.
DragRanges ==
    { <<Iso(2024, 3, 1), Iso(2024, 3, 2)>>, <<Iso(2024, 3, 4), Iso(2024, 3, 8)>> }

\* The progress values a handle is dragged to, in tenths.
DragProgress == {705}

\* on_date_change(task, start, end) for the i-th task of the chart.
on_date_change(i, start, end) ==
    LET task == currentTasks[i]
    IN  /\ gantt.live
        /\ timers < MaxTimers
        /\ Len(pending) < MaxPending
        /\ justDragged' = TRUE
        /\ timers' = timers + 1
        /\ IF startsWith(task.id, GROUP_HEADER_PREFIX) THEN UNCHANGED pending
           ELSE LET ganttTask == findTask(task.id)
                    mapperConfig ==
                        getTaskMapperConfig(viewConfig, EntriesOf(DataPaths(groups), vault))
                IN  IF ganttTask = <<>> THEN UNCHANGED pending
                    ELSE writeFrontmatter(ganttTask[1].filePath,
                             DateUpdates(mapperConfig, start, end),
                             [file |-> task.filePath, kind |-> "date"])
        /\ UNCHANGED <<tz, vault, groups, viewConfig, currentTasks, taskMap, gantt,
                       configSnapshot, opened, dateVars, mapVars>>

\* Math.round of a number in tenths.
MathRound(x) == (x + 5) \div 10

\* on_progress_change(task, progress) for the i-th task of the chart.
on_progress_change(i, progress) ==
    LET task == currentTasks[i]
        ganttTask == findTask(task.id)
        mapperConfig == getTaskMapperConfig(viewConfig, EntriesOf(DataPaths(groups), vault))
    IN  /\ gantt.live
        /\ Len(pending) < MaxPending
        /\ IF ~gantt.showProgress \/ ganttTask = <<>>
              \/ mapperConfig.progressProperty = NoProp
           THEN UNCHANGED pending
           ELSE writeFrontmatter(ganttTask[1].filePath,
                    extractPropertyName(mapperConfig.progressProperty)
                      :> NumberValue(NumToStr(MathRound(progress))),
                    [file |-> task.filePath, kind |-> "progress"])
        /\ UNCHANGED <<tz, vault, groups, viewConfig, currentTasks, taskMap, gantt,
                       configSnapshot, justDragged, opened, timers, dateVars, mapVars>>

\* s without its k-th element.
RemoveAt(s, k) == SubSeq(s, 1, k - 1) \o SubSeq(s, k + 1, Len(s))

\* The callback of processFrontMatter runs for the k-th call still
\* pending: each key of the updates is assigned in the frontmatter of the
\* file.  writeFrontmatter is not awaited by its callers (void) and nothing
\* orders the calls, so any pending call may be the next to complete.
ApplyWrite(k) ==
    LET w == pending[k]
    IN  /\ vault' = [vault EXCEPT ![w.file] = w.updates @@ @]
        /\ pending' = RemoveAt(pending, k)
        /\ UNCHANGED <<tz, groups, viewConfig, currentTasks, taskMap, gantt,
                       configSnapshot, justDragged, opened, timers, dateVars, mapVars>>

\* A timer of on_date_change fires after its 50 ms.
TimerFire ==
    /\ timers > 0
    /\ timers' = timers - 1
    /\ justDragged' = FALSE
    /\ UNCHANGED <<tz, vault, groups, viewConfig, currentTasks, taskMap, gantt,
                   configSnapshot, pending, opened, dateVars, mapVars>>

\* on_click(task) for the i-th task of the chart: openLinkText is called
\* with the path of the task's note unless the click is suppressed.
on_click(i) ==
    LET task == currentTasks[i]
    IN  /\ gantt.live
        /\ Len(opened) < MaxOpened
        /\ IF justDragged \/ startsWith(task.id, GROUP_HEADER_PREFIX)
           THEN UNCHANGED opened
           ELSE LET ganttTask == findTask(task.id)
                IN  IF ganttTask = <<>> THEN UNCHANGED opened
                    ELSE opened' = Append(opened, ganttTask[1].filePath)
        /\ UNCHANGED <<tz, vault, groups, viewConfig, currentTasks, taskMap, gantt,
                       configSnapshot, justDragged, timers, pending, dateVars, mapVars>>

Init == ViewInit

Next ==
    \/ onDataUpdated
    \/ \E i \in 1..Len(currentTasks) : \E r \in DragRanges :
           on_date_change(i, NewDateLocal(r[1], 0, 0, tz), NewDateLocal(r[2], 0, 0, tz))
    \/ \E i \in 1..Len(currentTasks) : \E p \in DragProgress : on_progress_change(i, p)
    \/ \E k \in 1..Len(pending) : ApplyWrite(k)
    \/ TimerFire

Spec == Init /\ [][Next]_vars

\* The write that completes in a step: the first pending call whose
\* removal gives the calls pending after the step.
Completes(k) ==
    /\ k \in 1..Len(pending)
    /\ pending' = RemoveAt(pending, k)
    /\ \A j \in 1..(k - 1) : pending' # RemoveAt(pending, j)

\* The names of the fields the start, end and progress roles are mapped to.
RoleNames ==
    LET c == getTaskMapperConfig(viewConfig, EntriesOf(DataPaths(groups), vault))
    IN  { extractPropertyName(q) :
            q \in {c.startProperty, c.endProperty, c.progressProperty} \ {NoProp} }

(***************************************************************************)
(* Rendering with a color-by property                                      *)
(***************************************************************************)
StatusName == <<"s", "t", "a", "t", "u", "s">>

ColorNote(status) ==
    Note(DateValue(Feb28), NullValue, NullValue) @@ (StatusName :> status)

StatusValues ==
    { NullValue, TextValue(<<"Done">>), TextValue(<<"InProgress">>), TextValue(<<"Todo">>) }

\* The vaults of three notes, each with some status or none.
ColorVaults ==
    { (PathC :> ColorNote(a)) @@ (PathD :> ColorNote(b)) @@ (PathSpace :> ColorNote(c)) :
        <<a, b, c>> \in StatusValues \X StatusValues \X StatusValues }

\* The three notes ungrouped, and grouped in two ways by some property.
ColorGroupings ==
    { <<Group(FALSE, <<>>, <<PathC, PathD, PathSpace>>)>>,
      <<Group(TRUE, <<"q1">>, <<PathC>>), Group(TRUE, <<"q2">>, <<PathD, PathSpace>>)>>,
      <<Group(TRUE, <<"q1">>, <<PathC, PathD>>), Group(TRUE, <<"q2">>, <<PathSpace>>)>> }

ColorConfig == [PinnedConfig EXCEPT !.colorBy = NoteProp(StatusName)]

ColorInit ==
    /\ tz \in ViewZones
    /\ vault \in ColorVaults
    /\ groups \in ColorGroupings
    /\ viewConfig = ColorConfig
    /\ currentTasks = <<>>
    /\ taskMap = EmptyMap
    /\ gantt = NoGantt
    /\ configSnapshot = <<>>
    /\ justDragged = FALSE
    /\ opened = <<>>
    /\ timers = 0
    /\ pending = <<>>
    /\ DateIdle
    /\ MapIdle

ColorNext == onDataUpdated

SpecColor == ColorInit /\ [][ColorNext]_vars

\* The color-by value of the note of a file.
ColorRaw(path) ==
    extractRawValue(getValue([path |-> path, fm |-> vault[path]], viewConfig.colorBy))

\* The number of distinct color-by values among the files of paths before
\* the first file with the value s.
ColorRank(paths, s) ==
    LET first == CHOOSE i \in 1..Len(paths) :
                     /\ ~ColorRaw(paths[i]).isNull /\ ColorRaw(paths[i]).s = s
                     /\ \A j \in 1..(i - 1) :
                            ColorRaw(paths[j]).isNull \/ ColorRaw(paths[j]).s # s
    IN  Cardinality({ ColorRaw(paths[j]).s :
                        j \in { k \in 1..(first - 1) : ~ColorRaw(paths[k]).isNull } })

\* C15: in a render pass every task of a note with a color-by value has
\* the color class of the rank, modulo the number of classes, of the first
\* occurrence of that value among the distinct values of all the records of
\* the pass, also when the records come in several groups.
C15_ColorByFirstOccurrence ==
    \A i \in 1..Len(currentTasks) :
        LET t == currentTasks[i]
        IN  (t.filePath # <<>> /\ ~ColorRaw(t.filePath).isNull) =>
                t.custom_class
                  = <<"gantt-color-">>
                      \o NumToStr(ColorRank(DataPaths(groups), ColorRaw(t.filePath).s)
                                    % COLOR_CLASS_COUNT)

(***************************************************************************)
(* Edits on a view whose end role alone is pinned                          *)
(***************************************************************************)
ScheduledName == <<"s", "c", "h", "e", "d", "u", "l", "e", "d">>

\* A note with a scheduled date and the due date given.
PlanNote(due) == (EndName :> due) @@ (ScheduledName :> DateValue(Feb28))

\* Two notes: the first without a due date yet.
PlanVault == (PathC :> PlanNote(NullValue)) @@ (PathD :> PlanNote(DateValue(Iso(2024, 3, 1))))

\* The end role pinned to due, the start role left to the detection.
PlanConfig ==
    [ startDate     |-> NoProp,
      endDate       |-> NoteProp(EndName),
      label         |-> NoProp,
      dependencies  |-> NoProp,
      colorBy       |-> NoProp,
      progress      |-> NoProp,
      showProgress  |-> "false",
      allProperties |-> <<NoteProp(EndName), NoteProp(ScheduledName)>> ]

PlanInit ==
    /\ tz \in ViewZones
    /\ vault = PlanVault
    /\ groups = <<Group(FALSE, <<>>, <<PathC, PathD>>)>>
    /\ viewConfig = PlanConfig
    /\ currentTasks = <<>>
    /\ taskMap = EmptyMap
    /\ gantt = NoGantt
    /\ configSnapshot = <<>>
    /\ justDragged = FALSE
    /\ opened = <<>>
    /\ timers = 0
    /\ pending = <<>>
    /\ DateIdle
    /\ MapIdle

PlanNext ==
    \/ onDataUpdated
    \/ \E i \in 1..Len(currentTasks) : \E r \in DragRanges :
           on_date_change(i, NewDateLocal(r[1], 0, 0, tz), NewDateLocal(r[2], 0, 0, tz))
    \/ \E k \in 1..Len(pending) : ApplyWrite(k)
    \/ TimerFire

SpecPlan == PlanInit /\ [][PlanNext]_vars

\* The names of the fields that a date change writes under a mapper
\* configuration.
DateRoleNames(config) ==
    { extractPropertyName(q) : q \in {config.startProperty, config.endProperty} \ {NoProp} }

\* C21: the role assignment is detected once per render pass and kept: an
\* edit callback that follows a render pass writes the fields of the
\* assignment of that pass, the detection not being run again on the records
\* in between.
C21_CallbackUsesRenderAssignment ==
    [][Len(pending') = Len(pending) + 1 =>
          DOMAIN pending'[Len(pending')].updates
            = IF pending'[Len(pending')].origin.kind = "date"
              THEN DateRoleNames(configSnapshot[1])
              ELSE {extractPropertyName(configSnapshot[1].progressProperty)}]_vars

(***************************************************************************)
(* Rendering in groups                                                     *)
(***************************************************************************)
GroupStarts ==
    { NullValue, DateValue(Feb28), DateValue(Dec31), DateValue(Iso(999, 11, 1)) }
GroupEnds == { NullValue, DateValue(Iso(2024, 3, 1)) }

\* The vaults of three notes, each with some start or none and some end or
\* none.
GroupVaults ==
    { (PathC :> Note(c[1], c[2], NullValue)) @@ (PathD :> Note(d[1], d[2], NullValue))
        @@ (PathSpace :> Note(a[1], a[2], NullValue)) :
        <<c, d, a>> \in (GroupStarts \X GroupEnds) \X (GroupStarts \X GroupEnds)
                          \X (GroupStarts \X GroupEnds) }

\* The three notes in two groups, in two ways.
GroupGroupings ==
    { <<Group(TRUE, <<"q1">>, <<PathC>>), Group(FALSE, <<>>, <<PathD, PathSpace>>)>>,
      <<Group(TRUE, <<"q1">>, <<PathC, PathD>>), Group(TRUE, <<"q2">>, <<PathSpace>>)>> }

GroupInit ==
    /\ tz \in ViewZones
    /\ vault \in GroupVaults
    /\ groups \in GroupGroupings
    /\ viewConfig = PinnedConfig
    /\ currentTasks = <<>>
    /\ taskMap = EmptyMap
    /\ gantt = NoGantt
    /\ configSnapshot = <<>>
    /\ justDragged = FALSE
    /\ opened = <<>>
    /\ timers = 0
    /\ pending = <<>>
    /\ DateIdle
    /\ MapIdle

GroupNext == onDataUpdated

SpecGroups == GroupInit /\ [][GroupNext]_vars

\* The indices of the tasks of the chart that come from the files of the
\* i-th group.
RealOf(i) ==
    { k \in 1..Len(currentTasks) :
        \E j \in 1..Len(groups[i].paths) : currentTasks[k].filePath = groups[i].paths[j] }

\* The indices of the headers of the i-th group.
HeadersOf(i) ==
    { k \in 1..Len(currentTasks) :
        currentTasks[k].id = GROUP_HEADER_PREFIX \o NumToStr(i - 1) }

\* The number of records of the i-th group whose start is a date.
StartedIn(i) ==
    Cardinality({ j \in 1..Len(groups[i].paths) :
        HasStart([path |-> groups[i].paths[j], fm |-> vault[groups[i].paths[j]]],
                 getTaskMapperConfig(viewConfig, EntriesOf(DataPaths(groups), vault)), tz) })

\* C22: in a grouped chart every group with a real task has exactly one
\* header, right before the group's tasks, from the earliest start to the
\* latest end of these tasks, with progress 0 and no dependencies; a group
\* without a real task has no header, and there is no other header.
C22_GroupHeaders ==
    currentTasks # <<>> =>
        /\ \A k \in 1..Len(currentTasks) :
               startsWith(currentTasks[k].id, GROUP_HEADER_PREFIX)
                   => \E i \in 1..Len(groups) : k \in HeadersOf(i)
        /\ \A i \in 1..Len(groups) :
               IF StartedIn(i) = 0 THEN HeadersOf(i) = {} /\ RealOf(i) = {}
               ELSE /\ Cardinality(HeadersOf(i)) = 1
                    /\ LET h == CHOOSE k \in HeadersOf(i) : TRUE
                       IN  /\ RealOf(i) = (h + 1)..(h + StartedIn(i))
                           /\ currentTasks[h].progress = 0
                           /\ currentTasks[h].dependencies = <<>>
                           /\ \A k \in RealOf(i) :
                                  /\ DayNumber(currentTasks[h].start)
                                        <= DayNumber(currentTasks[k].start)
                                  /\ DayNumber(currentTasks[h].end)
                                        >= DayNumber(currentTasks[k].end)
                           /\ \E k \in RealOf(i) :
                                  currentTasks[h].start = currentTasks[k].start
                           /\ \E k \in RealOf(i) :
                                  currentTasks[h].end = currentTasks[k].end

(***************************************************************************)
(* Edits on a view while notes are deleted                                 *)
(***************************************************************************)
\* paths without the file f
RECURSIVE WithoutPath(_, _)
WithoutPath(paths, f) ==
    IF paths = <<>> THEN <<>>
    ELSE (IF Head(paths) = f THEN <<>> ELSE <<Head(paths)>>) \o WithoutPath(Tail(paths), f)

\* The note f is deleted: the vault has no such file any more
\* (getFileByPath returns null) and the data of the view loses its entry;
\* the tasks of the chart stay as they are until the next onDataUpdated.
DeleteFile(f) ==
    /\ f \in DOMAIN vault
    /\ vault' = [g \in DOMAIN vault \ {f} |-> vault[g]]
    /\ groups' = [i \in 1..Len(groups) |->
                     [groups[i] EXCEPT !.paths = WithoutPath(groups[i].paths, f)]]
    /\ UNCHANGED <<tz, viewConfig, currentTasks, taskMap, gantt, configSnapshot,
                   justDragged, opened, timers, pending, dateVars, mapVars>>

MissingInit ==
    /\ tz \in ViewZones
    /\ vault = [f \in {PathC, PathSpace} |-> ViewVault[f]]
    /\ groups = <<Group(FALSE, <<>>, <<PathC, PathSpace>>)>>
    /\ viewConfig = PinnedConfig
    /\ currentTasks = <<>>
    /\ taskMap = EmptyMap
    /\ gantt = NoGantt
    /\ configSnapshot = <<>>
    /\ justDragged = FALSE
    /\ opened = <<>>
    /\ timers = 0
    /\ pending = <<>>
    /\ DateIdle
    /\ MapIdle

\* The date range a bar is dragged to here.
MissingDrag == <<Iso(2024, 3, 1), Iso(2024, 3, 2)>>

MissingNext ==
    \/ onDataUpdated
    \/ \E i \in 1..Len(currentTasks) :
           on_date_change(i, NewDateLocal(MissingDrag[1], 0, 0, tz),
                          NewDateLocal(MissingDrag[2], 0, 0, tz))
    \/ \E k \in 1..Len(pending) : ApplyWrite(k)
    \/ TimerFire
    \/ \E f \in DOMAIN vault : DeleteFile(f)

SpecMissing == MissingInit /\ [][MissingNext]_vars

(***************************************************************************)
(* Clicks on a view while bars are dragged                                 *)
(***************************************************************************)
ClickNext ==
    \/ onDataUpdated
    \/ \E i \in 1..Len(currentTasks) :
           on_date_change(i, NewDateLocal(MissingDrag[1], 0, 0, tz),
                          NewDateLocal(MissingDrag[2], 0, 0, tz))
    \/ \E k \in 1..Len(pending) : ApplyWrite(k)
    \/ TimerFire
    \/ \E i \in 1..Len(currentTasks) : on_click(i)

SpecClick == MissingInit /\ [][ClickNext]_vars

\* C1: when the write-back of an edit on a task completes, every field of
\* the task's record other than the fields of the start, end and progress
\* roles keeps its value, and every field of every other record is unchanged.
C1_EditFrame ==
    [][\A k \in 1..Len(pending) : Completes(k) =>
          \A f \in DOMAIN vault :
             /\ DOMAIN vault'[f] \ DOMAIN vault[f] \subseteq
                    (IF f = pending[k].origin.file THEN RoleNames ELSE {})
             /\ \A n \in DOMAIN vault[f] :
                   vault'[f][n] # vault[f][n] =>
                       f = pending[k].origin.file /\ n \in RoleNames]_vars

\* C5: the ids of the tasks handed to the chart, group headers included,
\* are pairwise distinct.
C5_UniqueIds ==
    \A i, j \in 1..Len(currentTasks) :
        i # j => currentTasks[i].id # currentTasks[j].id

\* C7: each date-change callback results in its own write to its own
\* record: when the write completes, the record of the task the callback
\* was fired for holds the dates of that callback.
C7_OwnWriteOwnRecord ==
    [][\A k \in 1..Len(pending) :
          Completes(k) /\ pending[k].origin.kind = "date" =>
              \A n \in DOMAIN pending[k].updates :
                  vault'[pending[k].origin.file][n] = pending[k].updates[n]]_vars

\* C8: the writes to one record are applied in the order of their edit
\* events: a write never completes while an earlier write to the same
\* record is still pending.
C8_WritesInOrder ==
    [][\A k \in 1..Len(pending) : Completes(k) =>
          \A j \in 1..(k - 1) : pending[j].file # pending[k].file]_vars


\* C16: every task's progress is an integer between 0 and 100 (progress is
\* kept in tenths: a multiple of 10 up to 1000); for the tasks rendered from
\* the notes as first stored, it is 0 unless progress is shown and the note's
\* progress is numeric, and then it is that number clamped to [0, 100].
C16_ProgressIntegerClamped ==
    \A i \in 1..Len(currentTasks) :
        LET t      == currentTasks[i]
            config == getTaskMapperConfig(viewConfig, EntriesOf(DataPaths(groups), vault))
        IN  /\ t.progress % 10 = 0
            /\ t.progress >= 0
            /\ t.progress <= 1000
            /\ (vault = ViewVault /\ t.filePath # <<>>) =>
                  LET raw == extractRawValue(
                                 getValue([path |-> t.filePath, fm |-> vault[t.filePath]],
                                          config.progressProperty))
                  IN  IF config.showProgress /\ config.progressProperty # NoProp
                         /\ ~raw.isNull /\ ~parseFloat(raw.s).nan
                      THEN t.progress = Max(0, Min(1000, parseFloat(raw.s).v))
                      ELSE t.progress = 0


\* The properties of the view whose value on the first entry is of the
\* kind, in the order of the view.
IsDateProp(p) == getValue(mEntries[1], p).kind = "date"
IsNumberProp(p) == getValue(mEntries[1], p).kind = "number"
IsTextProp(p) == getValue(mEntries[1], p).kind = "text"
DatePropsOfView == SelectSeq(viewConfig.allProperties, IsDateProp)
NumberPropsOfView == SelectSeq(viewConfig.allProperties, IsNumberProp)
TextPropsOfView == SelectSeq(viewConfig.allProperties, IsTextProp)

\* Whether the name of the property contains the keyword.
Names(p, keyword) == includes(getName(p), keyword)

\* Whether some property of props contains some keyword of keywords.
SomeNamed(props, keywords) ==
    \E i \in 1..Len(props) : \E k \in 1..Len(keywords) : Names(props[i], keywords[k])

\* The property that the ordered keyword list selects: for the first
\* keyword of the list that some property contains, the first such
\* property; none when no keyword is contained.
RECURSIVE ByKeywordOrder(_, _)
ByKeywordOrder(props, keywords) ==
    IF keywords = <<>> THEN NoProp
    ELSE IF \E i \in 1..Len(props) : Names(props[i], Head(keywords))
    THEN props[CHOOSE i \in 1..Len(props) :
                   /\ Names(props[i], Head(keywords))
                   /\ \A j \in 1..(i - 1) : ~Names(props[j], Head(keywords))]
    ELSE ByKeywordOrder(props, Tail(keywords))

NothingPinned == viewConfig.startDate = NoProp /\ viewConfig.endDate = NoProp

\* C17: with no role pinned, the start role is the date property that the
\* ordered start keywords select, or else the first date property; the end
\* role is the date property that the ordered end keywords select, or else,
\* with two date properties or more, a date property that is not the start.
C17_KeywordOrderDecides ==
    (mPhase = "out" /\ NothingPinned) =>
        /\ mConfig.startProperty =
              IF ByKeywordOrder(DatePropsOfView, startKeywords) # NoProp
              THEN ByKeywordOrder(DatePropsOfView, startKeywords)
              ELSE IF DatePropsOfView # <<>> THEN DatePropsOfView[1] ELSE NoProp
        /\ IF ByKeywordOrder(DatePropsOfView, endKeywords) # NoProp
           THEN mConfig.endProperty = ByKeywordOrder(DatePropsOfView, endKeywords)
           ELSE IF Len(DatePropsOfView) > 1
           THEN /\ mConfig.endProperty # mConfig.startProperty
                /\ \E i \in 1..Len(DatePropsOfView) :
                       mConfig.endProperty = DatePropsOfView[i]
           ELSE mConfig.endProperty = NoProp

\* The roles that the detection assigns, by name.
DetectedRoles(config) ==
    [ start        |-> config.startProperty,
      end          |-> config.endProperty,
      dependencies |-> config.dependenciesProperty,
      progress     |-> config.progressProperty,
      colorBy      |-> config.colorByProperty ]

\* C18: in a detection pass no property is assigned to two roles: the
\* detected start, end, dependencies, progress and colorBy properties are
\* pairwise distinct whenever they are set.
C18_DetectedRolesDistinct ==
    (mPhase = "out" /\ NothingPinned) =>
        \A r1, r2 \in DOMAIN DetectedRoles(mConfig) :
            (r1 # r2 /\ DetectedRoles(mConfig)[r1] # NoProp)
                => DetectedRoles(mConfig)[r1] # DetectedRoles(mConfig)[r2]

\* C19: every role the user left unset is filled by the detection when a
\* property of the view fits it, also when the start role is pinned: the
\* end by a date property with an end keyword, the dependencies and colorBy
\* by a text property with a keyword of theirs, the progress by a number
\* property with a progress keyword.
C19_UnsetRolesFilled ==
    mPhase = "out" =>
        /\ (viewConfig.endDate = NoProp /\ SomeNamed(DatePropsOfView, endKeywords))
              => mConfig.endProperty # NoProp
        /\ (viewConfig.dependencies = NoProp /\ SomeNamed(TextPropsOfView, depKeywords))
              => mConfig.dependenciesProperty # NoProp
        /\ (viewConfig.progress = NoProp /\ SomeNamed(NumberPropsOfView, progressKeywords))
              => mConfig.progressProperty # NoProp
        /\ (viewConfig.colorBy = NoProp /\ SomeNamed(TextPropsOfView, colorKeywords))
              => mConfig.colorByProperty # NoProp

\* C20: a role that the view configuration pins to a property keeps that
\* property in the configuration used for mapping and for the write-back,
\* whatever the detection finds.
C20_PinnedRolesKept ==
    mPhase = "out" =>
        /\ viewConfig.startDate # NoProp => mConfig.startProperty = viewConfig.startDate
        /\ viewConfig.endDate # NoProp => mConfig.endProperty = viewConfig.endDate
        /\ viewConfig.dependencies # NoProp
              => mConfig.dependenciesProperty = viewConfig.dependencies
        /\ viewConfig.progress # NoProp => mConfig.progressProperty = viewConfig.progress
        /\ viewConfig.colorBy # NoProp => mConfig.colorByProperty = viewConfig.colorBy


\* C23: a date-change callback on a real task results in a write to the
\* record of that task that holds both the new start and the new end, in two
\* fields; only the callback of a group header writes nothing.
C23_BothDatesWritten ==
    [][timers' = timers + 1 =>
          \/ /\ pending' = pending
             /\ \E i \in 1..Len(currentTasks) :
                    startsWith(currentTasks[i].id, GROUP_HEADER_PREFIX)
          \/ /\ Len(pending') = Len(pending) + 1
             /\ LET w == pending'[Len(pending')]
                IN  /\ w.file = w.origin.file
                    /\ Cardinality(DOMAIN w.updates) = 2
                    /\ \E r \in DragRanges :
                           { w.updates[n] : n \in DOMAIN w.updates }
                             = { DateValue(r[1]), DateValue(r[2]) }]_vars


\* C24: a date-change callback on a task whose note no longer exists when
\* writeFrontmatter looks it up is a no-op: no write is issued or scheduled
\* and no record changes; a callback on a task whose note exists issues its
\* write to that note as usual, also after such a no-op.
C24_MissingTargetNoOp ==
    [][\A i \in 1..Len(currentTasks) :
            on_date_change(i, NewDateLocal(MissingDrag[1], 0, 0, tz),
                           NewDateLocal(MissingDrag[2], 0, 0, tz))
              => IF currentTasks[i].filePath \notin DOMAIN vault
                 THEN pending' = pending /\ vault' = vault
                 ELSE /\ Len(pending') = Len(pending) + 1
                      /\ pending'[Len(pending')].file = currentTasks[i].filePath]_vars

\* A callback on the task of a deleted note was a no-op, and the callback on
\* the task of the other note has its write pending: two timers run, one
\* write is pending, and no record has changed.
C24_Witness ==
    /\ \E i \in 1..Len(currentTasks) : currentTasks[i].filePath \notin DOMAIN vault
    /\ timers = 2
    /\ Len(pending) = 1
    /\ pending[1].file \in DOMAIN vault
    /\ \A f \in DOMAIN vault : vault[f] = ViewVault[f]

\* C27: every task returned has nonzero duration: its stored end is a later
\* day than its stored start, also when the record's start and end are the
\* same calendar day at different times of day.
C27_NonzeroDuration ==
    mPhase = "out" =>
        \A i \in 1..Len(mTasks) : DayNumber(mTasks[i].start) < DayNumber(mTasks[i].end)


\* C28: a click that arrives while the reset timer of a date change is
\* still pending opens no note.  The timers all run 50 ms, so they fire in
\* the order of their date changes: while any timer is pending, the timer of
\* the latest date change is.
C28_ClickSuppressedWhileTimerPending ==
    [][opened' # opened => timers = 0]_vars

\* C29: progress is shown exactly when it can be edited: the tasks of the
\* chart were mapped with the progress of their records if and only if the
\* widget accepts progress edits and on_progress_change on a real task
\* writes the progress field of its record.
C29_ProgressShownIffEditable ==
    gantt.live =>
        ((configSnapshot[1].showProgress /\ configSnapshot[1].progressProperty # NoProp)
           <=> /\ gantt.showProgress
               /\ getTaskMapperConfig(viewConfig, EntriesOf(DataPaths(groups), vault))
                      .progressProperty # NoProp)

====
